---- MODULE Spec2Model ----
(***************************************************************************)
(* A model of fsButler (src/fsButler/fsButler.py): the identifier          *)
(* resolvers singleExpIds / deepCoaddIds / getIds, which scan a directory  *)
(* tree, and fetchDataset, which loops over the resolved identifiers,      *)
(* reads each dataset from the butler, adds calibration columns to the     *)
(* retained records and concatenates the per-dataset catalogs.             *)
(*                                                                         *)
(* Python strings are sequences of one-character strings, so that          *)
(* str.isdigit, int(), slicing and the regular expressions are computed    *)
(* character by character.  A Python value is a tagged record.             *)
(***************************************************************************)
EXTENDS Integers, Sequences, FiniteSets, TLC

VARIABLES
    fs,        \* the directory tree under dataRoot
    store,     \* the butler: which (dataset type, data id) exist
    call,      \* the arguments of the call in progress (or last made)
    pc,        \* "idle", "loop" (inside fetchDataset's for), "done", "raised"
    dataIds,   \* fetchDataset: the list returned by getIds
    idx,       \* fetchDataset: position of the for loop in dataIds
    dataset,   \* fetchDataset: the accumulator list
    scm,       \* fetchDataset: the local variable scm
    log,       \* every filesystem and butler access made by the call, in order
    result,    \* the value returned by the call
    err        \* the exception that ended the call, "none" if none

vars == <<fs, store, call, pc, dataIds, idx, dataset, scm, log, result, err>>

----------------------------------------------------------------------------
(* Bounds of the model *)

\* longest listing of an output directory in the resolver specification
MaxFiles == 2
\* largest number of rows of a source catalog in the store
MaxRows == 3

----------------------------------------------------------------------------
(* Python values *)

None == [t |-> "none"]
I(n) == [t |-> "int", v |-> n]
S(s) == [t |-> "str", v |-> s]

IsNone(x) == x.t = "none"
IsStr(x) == x.t = "str"

\* truth value of an object in `if x:` / `x and y`
Truthy(x) ==
    CASE x.t = "none" -> FALSE
      [] x.t = "int" -> x.v # 0
      [] x.t = "str" -> Len(x.v) > 0

\* x == y for the values above
PyEq(x, y) == x.t = y.t /\ (x.t = "none" \/ x.v = y.v)

Digits == {"0", "1", "2", "3", "4", "5", "6", "7", "8", "9"}

DigitVal(c) ==
    CASE c = "0" -> 0 [] c = "1" -> 1 [] c = "2" -> 2 [] c = "3" -> 3
      [] c = "4" -> 4 [] c = "5" -> 5 [] c = "6" -> 6 [] c = "7" -> 7
      [] c = "8" -> 8 [] c = "9" -> 9

\* str.isdigit()
isdigit(s) == Len(s) > 0 /\ \A i \in 1..Len(s) : s[i] \in Digits

\* int(s) for a string of decimal digits
RECURSIVE int(_)
int(s) ==
    IF Len(s) = 0 THEN 0
    ELSE int(SubSeq(s, 1, Len(s) - 1)) * 10 + DigitVal(s[Len(s)])

\* s[:-4]
DropLast4(s) == IF Len(s) <= 4 THEN <<>> ELSE SubSeq(s, 1, Len(s) - 4)

----------------------------------------------------------------------------
(* Names used in the repository trees and the calls *)

HSC_I == <<"H", "S", "C", "-", "I">>
HSC_R == <<"H", "S", "C", "-", "R">>
HSC_Z == <<"H", "S", "C", "-", "Z">>
OUTPUT == <<"o", "u", "t", "p", "u", "t">>
DEEPCOADD_RESULTS ==
    <<"d", "e", "e", "p", "C", "o", "a", "d", "d", "-",
      "r", "e", "s", "u", "l", "t", "s">>
P123 == <<"0", "0", "0", "0", "1", "2", "3">>
P124 == <<"0", "0", "0", "0", "1", "2", "4">>
T9813 == <<"9", "8", "1", "3">>
T0 == <<"0">>
T7777 == <<"7", "7", "7", "7">>
PATCH_1_1 == <<"1", ",", "1">>
PATCH_1_2 == <<"1", ",", "2">>
PATCH_5_5 == <<"5", ",", "5">>

SRC_ == <<"S", "R", "C", "-">>
FITS == <<"f", "i", "t", "s">>
V1234 == <<"0", "0", "0", "1", "2", "3", "4">>
V1235 == <<"0", "0", "0", "1", "2", "3", "5">>
V0 == <<"0", "0", "0", "0", "0", "0", "0">>
C007 == <<"0", "0", "7">>
C008 == <<"0", "0", "8">>
C000 == <<"0", "0", "0">>

F_good1 == SRC_ \o V1234 \o <<"-">> \o C007 \o <<".">> \o FITS
F_good2 == SRC_ \o V1235 \o <<"-">> \o C008 \o <<".">> \o FITS
F_zero == SRC_ \o V0 \o <<"-">> \o C000 \o <<".">> \o FITS
F_txt == SRC_ \o V1235 \o <<"-">> \o C007 \o <<".", "t", "x", "t">>
F_nodot == SRC_ \o V1234 \o <<"-">> \o C008 \o <<"x">> \o FITS
F_trail == SRC_ \o V1235 \o <<"-">> \o C000 \o <<".">> \o FITS \o <<".", "b", "a", "k">>
F_short == SRC_ \o <<"0", "0", "1", "2", "3", "4">> \o <<"-">> \o C007 \o <<".">> \o FITS
F_other == <<"C", "O", "R", "R", "-">> \o V1234 \o <<"-">> \o C007 \o <<".">> \o FITS

FileNames ==
    {F_good1, F_good2, F_zero, F_txt, F_nodot, F_trail, F_short, F_other}

----------------------------------------------------------------------------
(* The directory tree under dataRoot.                                      *)
(*   fs.rootExists         dataRoot is a directory                         *)
(*   fs.pointings          <root>/<pointing>/<filter>/output/<file>        *)
(*   fs.coaddExists        <root>/deepCoadd-results is a directory         *)
(*   fs.coadd              <root>/deepCoadd-results/<filter>/<tract>/<patch>*)
(* Every listing is a sequence: the order in which os.listdir returns it.  *)

Names(entries) == [i \in 1..Len(entries) |-> entries[i].name]
HasChild(entries, name) == \E i \in 1..Len(entries) : entries[i].name = name
Child(entries, name) ==
    entries[CHOOSE i \in 1..Len(entries) : entries[i].name = name]

\* os.listdir(dataRoot), when dataRoot exists
RootListing(f) ==
    Names(f.pointings) \o (IF f.coaddExists THEN <<DEEPCOADD_RESULTS>> ELSE <<>>)

Listdir(path) == [op |-> "listdir", path |-> path]
Isdir(path) == [op |-> "isdir", path |-> path]

Ok(ids, lg) == [err |-> "none", ids |-> ids, log |-> lg]
Raise(e, lg) == [err |-> e, ids |-> <<>>, log |-> lg]

----------------------------------------------------------------------------
(* singleExpIds *)

\* re.match(r"^SRC-", o)
MatchSRC(o) == Len(o) >= 4 /\ SubSeq(o, 1, 4) = SRC_

\* re.match(r"^SRC-([0-9]{7})-([0-9]{3}).fits", o): anchored at the start
\* only, and the '.' of the pattern is unescaped (any character but newline)
MatchSRCVisitCcd(o) ==
    /\ Len(o) >= 20
    /\ SubSeq(o, 1, 4) = SRC_
    /\ \A i \in 5..11 : o[i] \in Digits
    /\ o[12] = "-"
    /\ \A i \in 13..15 : o[i] \in Digits
    /\ o[16] # "\n"
    /\ SubSeq(o, 17, 20) = FITS

Group1(o) == SubSeq(o, 5, 11)
Group2(o) == SubSeq(o, 13, 15)

\* the four-way test on visit and ccd
Selected(visit, ccd, visitNumber, ccdNumber) ==
    CASE IsNone(visit) /\ IsNone(ccd) -> TRUE
      [] ~IsNone(visit) /\ IsNone(ccd) -> PyEq(I(visitNumber), visit)
      [] IsNone(visit) /\ ~IsNone(ccd) -> PyEq(I(ccdNumber), ccd)
      [] ~IsNone(visit) /\ ~IsNone(ccd) ->
            PyEq(I(visitNumber), visit) /\ PyEq(I(ccdNumber), ccd)

ExpId(filter, visit, ccd) == [filter |-> filter, visit |-> visit, ccd |-> ccd]

\* for o in outputs: ...
RECURSIVE OutputsLoop(_, _, _, _, _)
OutputsLoop(df, outputs, visit, ccd, i) ==
    IF i > Len(outputs) THEN <<>>
    ELSE LET o == outputs[i]
             rest == OutputsLoop(df, outputs, visit, ccd, i + 1)
         IN IF MatchSRC(o) /\ MatchSRCVisitCcd(o)
                 /\ Selected(visit, ccd, int(Group1(o)), int(Group2(o)))
            THEN <<ExpId(S(df), I(int(Group1(o))), I(int(Group2(o))))>> \o rest
            ELSE rest

\* for df in dirFilters: outputs = os.listdir(<cDir>/<df>/output) ...
RECURSIVE FiltersLoop(_, _, _, _, _)
FiltersLoop(pointing, dirFilters, visit, ccd, j) ==
    IF j > Len(dirFilters) THEN Ok(<<>>, <<>>)
    ELSE LET df == dirFilters[j]
             access == Listdir(<<pointing.name, df, OUTPUT>>)
         IN IF ~HasChild(pointing.filters, df)
                 \/ ~Child(pointing.filters, df).hasOutput
            THEN Raise("OSError", <<access>>)
            ELSE LET here == OutputsLoop(df, Child(pointing.filters, df).outputs,
                                         visit, ccd, 1)
                     rest == FiltersLoop(pointing, dirFilters, visit, ccd, j + 1)
                 IN IF rest.err # "none"
                    THEN Raise(rest.err, <<access>> \o rest.log)
                    ELSE Ok(here \o rest.ids, <<access>> \o rest.log)

\* for d in dataDirs: ...
RECURSIVE DataDirsLoop(_, _, _, _, _, _)
DataDirsLoop(f, dataDirs, filter, visit, ccd, k) ==
    IF k > Len(dataDirs) THEN Ok(<<>>, <<>>)
    ELSE LET d == dataDirs[k]
             pointing == Child(f.pointings, d)
             rest == DataDirsLoop(f, dataDirs, filter, visit, ccd, k + 1)
             Seq2(here) ==
                 IF here.err # "none" THEN here
                 ELSE IF rest.err # "none"
                      THEN Raise(rest.err, here.log \o rest.log)
                      ELSE Ok(here.ids \o rest.ids, here.log \o rest.log)
         IN IF Truthy(filter)
            THEN LET chk == Isdir(<<d, filter.v>>)
                 IN IF HasChild(pointing.filters, filter.v)
                    THEN LET here == FiltersLoop(pointing, <<filter.v>>, visit, ccd, 1)
                         IN Seq2([here EXCEPT !.log = <<chk>> \o @])
                    ELSE Seq2(Ok(<<>>, <<chk>>))
            ELSE LET here == FiltersLoop(pointing, Names(pointing.filters),
                                         visit, ccd, 1)
                 IN Seq2([here EXCEPT !.log = <<Listdir(<<d>>)>> \o @])

singleExpIds(f, filter, visit, ccd) ==
    IF Truthy(filter) /\ Truthy(visit) /\ Truthy(ccd)
    THEN Ok(<<ExpId(filter, visit, ccd)>>, <<>>)
    ELSE IF ~f.rootExists THEN Raise("OSError", <<Listdir(<<>>)>>)
    ELSE LET dataDirs == SelectSeq(RootListing(f), isdigit)
             r == DataDirsLoop(f, dataDirs, filter, visit, ccd, 1)
         IN [r EXCEPT !.log = <<Listdir(<<>>)>> \o @]

----------------------------------------------------------------------------
(* deepCoaddIds *)

CoaddId(filter, tract, patch) ==
    [filter |-> filter, tract |-> tract, patch |-> patch]

\* <root>/deepCoadd-results can be listed
CoaddListable(f) == f.rootExists /\ f.coaddExists

\* for p in patches: dataIds.append({... 'tract' : int(t) ...})
PatchesLoop(fl, t, patches) ==
    IF Len(patches) = 0 THEN Ok(<<>>, <<>>)
    ELSE IF ~isdigit(t.v) THEN Raise("ValueError", <<>>)
    ELSE Ok([i \in 1..Len(patches) |-> CoaddId(fl, I(int(t.v)), patches[i])], <<>>)

\* for t in tracts: tractPath = os.path.join(filterPath, t) ...
\* os.path.join takes strings: a tract passed as an int makes it raise
RECURSIVE TractsLoop(_, _, _, _, _)
TractsLoop(f, fl, tracts, patch, k) ==
    IF k > Len(tracts) THEN Ok(<<>>, <<>>)
    ELSE LET t == tracts[k]
         IN IF ~IsStr(t) THEN Raise("AttributeError", <<>>)
            ELSE LET tractPath == <<DEEPCOADD_RESULTS, fl.v, t.v>>
                     listable ==
                         /\ CoaddListable(f)
                         /\ HasChild(f.coadd, fl.v)
                         /\ HasChild(Child(f.coadd, fl.v).tracts, t.v)
                     here ==
                         IF Truthy(patch) THEN PatchesLoop(fl, t, <<patch>>)
                         ELSE IF ~listable
                              THEN Raise("OSError", <<Listdir(tractPath)>>)
                              ELSE LET ps == Child(Child(f.coadd, fl.v).tracts, t.v).patches
                                       r == PatchesLoop(fl, t, [i \in 1..Len(ps) |-> S(ps[i])])
                                   IN [r EXCEPT !.log = <<Listdir(tractPath)>>]
                 IN IF here.err # "none" THEN here
                    ELSE LET rest == TractsLoop(f, fl, tracts, patch, k + 1)
                         IN IF rest.err # "none"
                            THEN Raise(rest.err, here.log \o rest.log)
                            ELSE Ok(here.ids \o rest.ids, here.log \o rest.log)

\* for f in filters: filterPath = os.path.join(deepCoaddPath, f) ...
RECURSIVE CoaddFiltersLoop(_, _, _, _, _)
CoaddFiltersLoop(f, filters, tract, patch, k) ==
    IF k > Len(filters) THEN Ok(<<>>, <<>>)
    ELSE LET fl == filters[k]
             filterPath == <<DEEPCOADD_RESULTS, fl.v>>
             listable == CoaddListable(f) /\ HasChild(f.coadd, fl.v)
             here ==
                 IF Truthy(tract) THEN TractsLoop(f, fl, <<tract>>, patch, 1)
                 ELSE IF ~listable
                      THEN Raise("OSError", <<Listdir(filterPath)>>)
                      ELSE LET ts == Names(Child(f.coadd, fl.v).tracts)
                               r == TractsLoop(f, fl, [i \in 1..Len(ts) |-> S(ts[i])],
                                               patch, 1)
                           IN [r EXCEPT !.log = <<Listdir(filterPath)>> \o @]
         IN IF here.err # "none" THEN here
            ELSE LET rest == CoaddFiltersLoop(f, filters, tract, patch, k + 1)
                 IN IF rest.err # "none"
                    THEN Raise(rest.err, here.log \o rest.log)
                    ELSE Ok(here.ids \o rest.ids, here.log \o rest.log)

deepCoaddIds(f, filter, tract, patch) ==
    IF Truthy(filter) /\ Truthy(tract) /\ Truthy(patch)
    THEN Ok(<<CoaddId(filter, tract, patch)>>, <<>>)
    ELSE IF Truthy(filter)
         THEN CoaddFiltersLoop(f, <<filter>>, tract, patch, 1)
         ELSE IF ~CoaddListable(f)
              THEN Raise("OSError", <<Listdir(<<DEEPCOADD_RESULTS>>)>>)
              ELSE LET fls == Names(f.coadd)
                       r == CoaddFiltersLoop(f, [i \in 1..Len(fls) |-> S(fls[i])],
                                             tract, patch, 1)
                   IN [r EXCEPT !.log = <<Listdir(<<DEEPCOADD_RESULTS>>)>> \o @]

----------------------------------------------------------------------------
(* Dataset types, as strings *)

SRC == <<"s", "r", "c">>
CALEXP == <<"c", "a", "l", "e", "x", "p">>
CALEXP_MD == CALEXP \o <<"_", "m", "d">>
DEEPCOADD == <<"d", "e", "e", "p", "C", "o", "a", "d", "d">>
DEEPCOADD_SRC == DEEPCOADD \o <<"_">> \o SRC
DEEPCOADD_CALEXP_MD == DEEPCOADD \o <<"_">> \o CALEXP_MD

\* getIds: kw is the **dataId of the caller, a record of three values
\* (k1 = filter, k2 = visit or tract, k3 = ccd or patch)
getIds(f, dataType, kw) ==
    IF dataType = SRC \/ dataType = CALEXP_MD
    THEN singleExpIds(f, kw.k1, kw.k2, kw.k3)
    ELSE IF dataType = DEEPCOADD \/ dataType = DEEPCOADD_SRC
              \/ dataType = DEEPCOADD_CALEXP_MD
         THEN deepCoaddIds(f, kw.k1, kw.k2, kw.k3)
         ELSE Raise("ValueError", <<>>)

----------------------------------------------------------------------------
(* Repository trees *)

FilterDir(name, outputs) == [name |-> name, hasOutput |-> TRUE, outputs |-> outputs]
NoOutputDir(name) == [name |-> name, hasOutput |-> FALSE, outputs |-> <<>>]
Pointing(name, filters) == [name |-> name, filters |-> filters]
TractDir(name, patches) == [name |-> name, patches |-> patches]
CoaddFilterDir(name, tracts) == [name |-> name, tracts |-> tracts]

Tree(pointings, coaddExists, coadd) ==
    [rootExists |-> TRUE, pointings |-> pointings,
     coaddExists |-> coaddExists, coadd |-> coadd]

MissingRoot ==
    [rootExists |-> FALSE, pointings |-> <<>>, coaddExists |-> FALSE, coadd |-> <<>>]

\* listings of an output directory: distinct file names, in any order
Listings ==
    {l \in UNION {[1..k -> FileNames] : k \in 0..MaxFiles} :
        \A i, j \in 1..Len(l) : i # j => l[i] # l[j]}

CoaddA == <<CoaddFilterDir(HSC_R, <<TractDir(T9813, <<PATCH_1_1, PATCH_1_2>>)>>)>>
CoaddB ==
    <<CoaddFilterDir(HSC_R, <<TractDir(T9813, <<PATCH_1_1>>), TractDir(T0, <<PATCH_1_2>>)>>),
      CoaddFilterDir(HSC_I, <<TractDir(T9813, <<PATCH_1_1>>)>>)>>
CoaddC == <<CoaddFilterDir(HSC_R, <<>>)>>

ExposuresA ==
    <<Pointing(P123, <<FilterDir(HSC_I, <<F_good1, F_txt, F_good2>>)>>)>>

\* the second filter directory of the first pointing, and the second pointing
SecondFilter == {<<>>, <<FilterDir(HSC_R, <<F_good2>>)>>, <<NoOutputDir(HSC_R)>>}
SecondPointing == {<<>>, <<Pointing(P124, <<FilterDir(HSC_I, <<F_good1>>)>>)>>}

ResolveTrees ==
    {MissingRoot}
    \cup {Tree(<<Pointing(P123, <<FilterDir(HSC_I, l)>> \o f2)>> \o p2, TRUE, CoaddA) :
            l \in Listings, f2 \in SecondFilter, p2 \in SecondPointing}
    \cup {Tree(ExposuresA, TRUE, c) : c \in {CoaddA, CoaddB, CoaddC}}
    \cup {Tree(ExposuresA, FALSE, <<>>), Tree(<<>>, FALSE, <<>>)}

\* the tree of the assembly specification
FetchTree == Tree(ExposuresA, TRUE, CoaddA)

----------------------------------------------------------------------------
(* Arguments of the calls *)

ExpFilters == {None, S(HSC_I), S(HSC_Z)}
ExpVisits == {None, I(0), I(1234), I(4321)}
ExpCcds == {None, I(0), I(7)}
CoaddFilters == {None, S(HSC_R), S(HSC_Z)}
CoaddTracts == {None, I(0), I(9813), S(T9813), S(T7777)}
CoaddPatches == {None, S(PATCH_1_1), S(PATCH_5_5)}

NoCall == [op |-> "none"]
NoStore == [exists |-> {}]

\* the frame of a call that has not entered fetchDataset's loop
NoFrame ==
    /\ dataIds' = <<>>
    /\ idx' = 0
    /\ dataset' = <<>>
    /\ scm' = None

----------------------------------------------------------------------------
(* The resolver specification: calls of the two static resolvers *)

InitResolve ==
    /\ fs \in ResolveTrees
    /\ store = NoStore
    /\ call = NoCall
    /\ pc = "idle"
    /\ dataIds = <<>>
    /\ idx = 0
    /\ dataset = <<>>
    /\ scm = None
    /\ log = <<>>
    /\ result = None
    /\ err = "none"

Finish(r) ==
    /\ pc' = IF r.err = "none" THEN "done" ELSE "raised"
    /\ result' = r.ids
    /\ err' = r.err
    /\ log' = r.log

Call_singleExpIds ==
    /\ pc = "idle"
    /\ \E filter \in ExpFilters, visit \in ExpVisits, ccd \in ExpCcds :
        /\ call' = [op |-> "singleExpIds", k1 |-> filter, k2 |-> visit, k3 |-> ccd]
        /\ Finish(singleExpIds(fs, filter, visit, ccd))
    /\ NoFrame
    /\ UNCHANGED <<fs, store>>

Call_deepCoaddIds ==
    /\ pc = "idle"
    /\ \E filter \in CoaddFilters, tract \in CoaddTracts, patch \in CoaddPatches :
        /\ call' = [op |-> "deepCoaddIds", k1 |-> filter, k2 |-> tract, k3 |-> patch]
        /\ Finish(deepCoaddIds(fs, filter, tract, patch))
    /\ NoFrame
    /\ UNCHANGED <<fs, store>>

\* the caller has the result (or the exception) and the frame of the call
\* is gone; the next call may be made
NextCall ==
    /\ pc \in {"done", "raised"}
    /\ pc' = "idle"
    /\ call' = NoCall
    /\ log' = <<>>
    /\ result' = None
    /\ err' = "none"
    /\ NoFrame
    /\ UNCHANGED <<fs, store>>

NextResolve == Call_singleExpIds \/ Call_deepCoaddIds \/ NextCall

SpecResolve == InitResolve /\ [][NextResolve]_vars

----------------------------------------------------------------------------
(* Claims about the resolvers (checked under SpecResolve) *)

Returned == pc \in {"done", "raised"}
ResolverCall == call.op \in {"singleExpIds", "deepCoaddIds"}
AllBound == ~IsNone(call.k1) /\ ~IsNone(call.k2) /\ ~IsNone(call.k3)
KeyId ==
    IF call.op = "singleExpIds" THEN ExpId(call.k1, call.k2, call.k3)
    ELSE CoaddId(call.k1, call.k2, call.k3)

\* C1: a resolver called with all three sub-fields bound to a value (the
\* values visit = 0, ccd = 0 and tract = 0 included) returns the list of
\* exactly the supplied key and reads nothing from the filesystem, whatever
\* the tree is (a missing root included).
C1_FullKeyReturnsItself ==
    (Returned /\ ResolverCall /\ AllBound)
        => (err = "none" /\ result = <<KeyId>> /\ log = <<>>)

\* every filter directory of the exposure layout has its output directory
ExposureLayout(f) ==
    /\ f.rootExists
    /\ \A i \in 1..Len(f.pointings) :
         \A j \in 1..Len(f.pointings[i].filters) :
            f.pointings[i].filters[j].hasOutput

Range(q) == {q[i] : i \in 1..Len(q)}

\* the pairs <<filter directory, file name>> of the output directories that
\* a call with the given filter scans
ScannedFiles(f, filter) ==
    UNION {UNION {{<<fd.name, o>> : o \in Range(fd.outputs)} :
                    fd \in {d \in Range(p.filters) :
                              IsNone(filter) \/ d.name = filter.v}} :
            p \in Range(f.pointings)}

\* the form SRC-<7 digits>-<3 digits>.<ext>, <ext> a non-empty extension
\* without a further '.'
SpecForm(o) ==
    /\ Len(o) >= 17
    /\ SubSeq(o, 1, 4) = SRC_
    /\ \A i \in 5..11 : o[i] \in Digits
    /\ o[12] = "-"
    /\ \A i \in 13..15 : o[i] \in Digits
    /\ o[16] = "."
    /\ \A i \in 17..Len(o) : o[i] # "."

Decoded(df, o) == ExpId(S(df), I(int(Group1(o))), I(int(Group2(o))))

\* C2: on a tree of the exposure layout, singleExpIds without visit and ccd
\* returns exactly the triples decoded from the scanned file names of the
\* form SRC-<7 digits>-<3 digits>.<ext>: each such name contributes, any
\* other name contributes nothing and does not stop the scan.
C2_ExactlyTheSpecFormNames ==
    (Returned /\ call.op = "singleExpIds" /\ ExposureLayout(fs)
        /\ IsNone(call.k2) /\ IsNone(call.k3))
        => /\ err = "none"
           /\ Range(result) =
                {Decoded(x[1], x[2]) :
                    x \in {y \in ScannedFiles(fs, call.k1) : SpecForm(y[2])}}

\* the visit, ccd: some SRC file name of the tree carries the number
HasNumber(f, lo, hi, n) ==
    \E x \in ScannedFiles(f, None) :
        /\ MatchSRC(x[2]) /\ Len(x[2]) >= hi
        /\ isdigit(SubSeq(x[2], lo, hi)) /\ int(SubSeq(x[2], lo, hi)) = n.v

TractDirs(f) == UNION {Range(d.tracts) : d \in Range(f.coadd)}

\* the directory name t is the tract the value x asks for
NamesTract(t, x) ==
    IF IsStr(x) THEN t = x.v ELSE isdigit(t) /\ int(t) = x.v

\* some requested component of the key of the call is not on disk
MissingComponent ==
    IF call.op = "singleExpIds"
    THEN \/ ~IsNone(call.k1)
            /\ \A p \in Range(fs.pointings) : ~HasChild(p.filters, call.k1.v)
         \/ ~IsNone(call.k2) /\ ~HasNumber(fs, 5, 11, call.k2)
         \/ ~IsNone(call.k3) /\ ~HasNumber(fs, 13, 15, call.k3)
    ELSE \/ ~IsNone(call.k1) /\ ~HasChild(fs.coadd, call.k1.v)
         \/ ~IsNone(call.k2)
            /\ \A t \in TractDirs(fs) : ~NamesTract(t.name, call.k2)
         \/ ~IsNone(call.k3)
            /\ \A t \in TractDirs(fs) : call.k3.v \notin Range(t.patches)

\* C3: a resolver called with a partial key, one of whose requested
\* components is not on disk, returns the empty list: it does not raise and
\* it returns no identifier naming the missing component.
C3_MissingComponentYieldsEmpty ==
    (Returned /\ ResolverCall /\ ~AllBound /\ fs.rootExists
        /\ ExposureLayout(fs) /\ fs.coaddExists /\ MissingComponent)
        => (err = "none" /\ result = <<>>)

----------------------------------------------------------------------------
(* The butler and what it holds.  store.exists is the set of pairs         *)
(* <<dataset type, data id>> for which datasetExists is true.  The objects *)
(* it returns are symbolic: a source catalog is its list of records, a     *)
(* calibration is named by the dataset it was read from.                   *)

E1 == ExpId(S(HSC_I), I(1234), I(7))
E2 == ExpId(S(HSC_I), I(1235), I(8))
D1 == CoaddId(S(HSC_R), I(9813), S(PATCH_1_1))
D2 == CoaddId(S(HSC_R), I(9813), S(PATCH_1_2))

ExpProfiles == {{}, {SRC, CALEXP_MD, CALEXP}, {SRC, CALEXP}}
CoaddProfiles ==
    {{}, {DEEPCOADD_SRC, DEEPCOADD_CALEXP_MD, DEEPCOADD},
     {DEEPCOADD_SRC, DEEPCOADD}, {DEEPCOADD_SRC}}
LastProfiles == {{}, {DEEPCOADD_SRC, DEEPCOADD_CALEXP_MD, DEEPCOADD}}

Stores ==
    {[exists |-> {<<k, E1>> : k \in p1} \cup {<<k, E2>> : k \in p2}
                 \cup {<<k, D1>> : k \in q1} \cup {<<k, D2>> : k \in q2}] :
        p1 \in ExpProfiles, p2 \in ExpProfiles,
        q1 \in CoaddProfiles, q2 \in LastProfiles}

\* number of records of the source catalog stored under a data id
NRows(id) ==
    CASE id = E1 -> MaxRows
      [] id = E2 -> MaxRows - 1
      [] id = D1 -> MaxRows
      [] OTHER -> 1

\* what utils.goodSources answers for record i of that catalog
Good(id, i) ==
    CASE id = E1 -> i % 2 = 1
      [] id = E2 -> i % 2 = 0
      [] id = D1 -> i # 1
      [] OTHER -> FALSE

\* whether psf.computeShape(pos) succeeds at the centroid of record i
ShapeAt(id, i) ==
    CASE id = E1 -> i # 1
      [] id = E2 -> TRUE
      [] id = D1 -> i % 2 = 1
      [] OTHER -> FALSE

Record(id, i) == [src |-> id, n |-> i]

\* isinstance(dataElement, afwTable.SourceCatalog)
IsSourceCatalog(x) == x.t = "SourceCatalog"

\* self.butler.datasetExists(dataType, **id)
datasetExists(st, dataType, id) == <<dataType, id>> \in st.exists

\* self.butler.get(dataType, **id), for a dataset that exists
get(dataType, id) ==
    IF dataType = SRC \/ dataType = DEEPCOADD_SRC
    THEN [t |-> "SourceCatalog", kind |-> dataType, id |-> id,
          rows |-> [i \in 1..NRows(id) |-> Record(id, i)]]
    ELSE [t |-> "object", kind |-> dataType, id |-> id]

Exists(dataType, id, at) ==
    [op |-> "datasetExists", kind |-> dataType, id |-> id, at |-> at]
Get(dataType, id, at) == [op |-> "get", kind |-> dataType, id |-> id, at |-> at]
Build(id, at) == [op |-> "createSchemaMapper", id |-> id, at |-> at]

\* calib.getFluxMag0() and getPsf() of the object read as <dataType, id>
FluxMag0(dataType, id) == [q |-> "fluxMag0", kind |-> dataType, id |-> id]
FluxMag0Err(dataType, id) == [q |-> "fluxMag0Err", kind |-> dataType, id |-> id]
Psf(dataType, id) == [q |-> "psf", kind |-> dataType, id |-> id]

\* psf.computeShape().getDeterminantRadius()
RadiusAvg(psf) == [q |-> "radius", psf |-> psf, pos |-> None]
\* psf.computeShape(pos).getDeterminantRadius(), where it succeeds
RadiusAt(psf, rec) == [q |-> "radius", psf |-> psf, pos |-> rec]

----------------------------------------------------------------------------
(* _getCalexpType and _getZeroMagFlux *)

_getCalexpType(dataType) ==
    IF dataType = SRC THEN [err |-> "none", val |-> CALEXP_MD]
    ELSE IF dataType = DEEPCOADD_SRC
         THEN [err |-> "none", val |-> DEEPCOADD_CALEXP_MD]
    ELSE IF dataType = CALEXP_MD \/ dataType = DEEPCOADD_CALEXP_MD
         THEN [err |-> "none", val |-> dataType]
    ELSE IF dataType = CALEXP \/ dataType = DEEPCOADD
         THEN [err |-> "none", val |-> dataType]
    ELSE [err |-> "ValueError", val |-> <<>>]

\* the dataset type of the else branch: calexpType = dataType[:-4]
FallbackType(dataType) == DropLast4(dataType)

\* returns fluxMag0, fluxMag0Err, psf, or the exception, with the accesses made
_getZeroMagFlux(st, dataType, id, at) ==
    LET ct == _getCalexpType(dataType)
    IN IF ct.err # "none"
       THEN [err |-> ct.err, log |-> <<>>]
       ELSE IF datasetExists(st, ct.val, id)
            THEN [err |-> "none",
                  log |-> <<Exists(ct.val, id, at), Get(ct.val, id, at)>>,
                  fluxMag0 |-> FluxMag0(ct.val, id),
                  fluxMag0Err |-> FluxMag0Err(ct.val, id),
                  psf |-> Psf(ct.val, id)]
            ELSE LET ft == FallbackType(dataType)
                     lg == <<Exists(ct.val, id, at), Get(ft, id, at)>>
                 IN IF ~datasetExists(st, ft, id)
                    THEN [err |-> "NoResults", log |-> lg]
                    ELSE [err |-> "none", log |-> lg,
                          fluxMag0 |-> FluxMag0(ft, id),
                          fluxMag0Err |-> FluxMag0Err(ft, id),
                          psf |-> Psf(ft, id)]

----------------------------------------------------------------------------
(* fetchDataset *)

\* the schema mapper a caller passes as scm
CallerScm == [t |-> "SchemaMapper", by |-> "caller"]

\* utils.createSchemaMapper(dataElement, filterSuffix=..., withZeroMagFlux=...,
\*                          withSeeing=...)
createSchemaMapper(dataElement, c) ==
    [t |-> "SchemaMapper", by |-> "createSchemaMapper",
     sample |-> dataElement.id, filterSuffix |-> c.filterSuffix,
     withZeroMagFlux |-> c.withZeroMagFlux, withSeeing |-> c.withSeeing]

\* if scm == None: scm = utils.createSchemaMapper(...)
RebuildAlways(scmIn, dataElement, c) == createSchemaMapper(dataElement, c)
SchemaMapperFor(scmIn, dataElement, c) ==
    IF IsNone(scmIn) THEN createSchemaMapper(dataElement, c) ELSE scmIn

\* scm.getOutputSchema()
getOutputSchema(m) == [of |-> m]

\* a column name: 'flux.zeromag' + suffix when filterSuffix is given
Column(name, filterSuffix) ==
    [name |-> name, suffix |-> IF Truthy(filterSuffix) THEN filterSuffix ELSE None]

\* if withZeroMagFlux or withSeeing:
Always(c) == TRUE
NeedsCalibration(c) == c.withZeroMagFlux \/ c.withSeeing

\* fluxMag0, fluxMag0Err, psf = self._getZeroMagFlux(dataType, **id)
CalibrationOfFirst(st, dataType, ids, at) == _getZeroMagFlux(st, dataType, ids[1], at)
CalibrationOf(st, dataType, ids, at) == _getZeroMagFlux(st, dataType, ids[at], at)

\* the value set in the seeing column of the output record of rec
SeeingAtPosUnguarded(c, psf, rec, seeingAvgPos) ==
    IF c.seeingAtPos THEN RadiusAt(psf, rec) ELSE seeingAvgPos
Seeing(c, psf, rec, seeingAvgPos) ==
    IF c.seeingAtPos
    THEN IF ShapeAt(rec.src, rec.n) THEN RadiusAt(psf, rec) ELSE RadiusAvg(psf)
    ELSE seeingAvgPos

\* outputRecord: the input record copied through scm, and the columns set
OutputRecord(c, rec, cal) ==
    [src |-> rec.src, n |-> rec.n,
     cols |->
        (IF c.withZeroMagFlux
         THEN {<<Column("flux.zeromag", c.filterSuffix), cal.fluxMag0>>,
               <<Column("flux.zeromag.err", c.filterSuffix), cal.fluxMag0Err>>}
         ELSE {})
        \cup
        (IF c.withSeeing
         THEN {<<Column("seeing", c.filterSuffix),
                 Seeing(c, cal.psf, rec, RadiusAvg(cal.psf))>>}
         ELSE {})]

IsGood(rec) == Good(rec.src, rec.n)

\* outputCat: one output record per record with good[i], in input order
OutputCat(c, m, dataElement, cal) ==
    LET kept == SelectSeq(dataElement.rows, IsGood)
    IN [t |-> "SimpleCatalog", id |-> dataElement.id,
        schema |-> getOutputSchema(m),
        rows |-> [i \in 1..Len(kept) |-> OutputRecord(c, kept[i], cal)]]

\* one pass of `for id in dataIds:`; at is the position of id in dataIds.
\* Returns the exception, the accesses made, scm afterwards and what was
\* appended to dataset.
LoopBody(st, c, ids, at, scmIn) ==
    LET id == ids[at]
        chk == <<Exists(c.dataType, id, at)>>
    IN IF ~datasetExists(st, c.dataType, id)
       THEN [err |-> "none", log |-> chk, scm |-> scmIn, appended |-> <<>>]
       ELSE LET dataElement == get(c.dataType, id)
                lg == chk \o <<Get(c.dataType, id, at)>>
                cal == IF NeedsCalibration(c)
                       THEN CalibrationOf(st, c.dataType, ids, at)
                       ELSE [err |-> "none", log |-> <<>>]
            IN IF cal.err # "none"
               THEN [err |-> cal.err, log |-> lg \o cal.log, scm |-> scmIn,
                     appended |-> <<>>]
               ELSE IF IsSourceCatalog(dataElement)
                    THEN LET m == SchemaMapperFor(scmIn, dataElement, c)
                         IN [err |-> "none",
                             log |-> lg \o cal.log
                                     \o (IF m # scmIn THEN <<Build(id, at)>> ELSE <<>>),
                             scm |-> m,
                             appended |-> <<OutputCat(c, m, dataElement, cal)>>]
                    ELSE [err |-> "none", log |-> lg \o cal.log, scm |-> scmIn,
                          appended |-> <<dataElement>>]

\* rows of cats[1], cats[2], ... one after the other
RECURSIVE AllRows(_, _)
AllRows(cats, i) ==
    IF i > Len(cats) THEN <<>> ELSE cats[i].rows \o AllRows(cats, i + 1)

\* cat = cats[0]; cat.extend(cats[i], deep=False) for the others.  Only a
\* catalog has extend.
_concatenateCats(cats) ==
    IF \E i \in 1..Len(cats) : cats[i].t # "SimpleCatalog"
    THEN [err |-> "AttributeError", val |-> None]
    ELSE [err |-> "none", val |-> [cats[1] EXCEPT !.rows = AllRows(cats, 1)]]

DataTypes ==
    {SRC, CALEXP_MD, DEEPCOADD, DEEPCOADD_SRC, DEEPCOADD_CALEXP_MD, CALEXP}
FilterSuffixes == {None, S(<<"i">>)}
ScmArgs == {None, CallerScm}
FetchFilters == {None, S(HSC_I), S(HSC_R)}

Init ==
    /\ fs = FetchTree
    /\ store \in Stores
    /\ call = NoCall
    /\ pc = "idle"
    /\ dataIds = <<>>
    /\ idx = 0
    /\ dataset = <<>>
    /\ scm = None
    /\ log = <<>>
    /\ result = None
    /\ err = "none"

\* dataIds = self.getIds(self.dataRoot, dataType, **dataId); dataset = []
Call_fetchDataset ==
    /\ pc = "idle"
    /\ \E dataType \in DataTypes, wz \in BOOLEAN, ws \in BOOLEAN, sap \in BOOLEAN,
          suffix \in FilterSuffixes, scmArg \in ScmArgs, filter \in FetchFilters :
        LET c == [op |-> "fetchDataset", dataType |-> dataType,
                  withZeroMagFlux |-> wz, withSeeing |-> ws, seeingAtPos |-> sap,
                  filterSuffix |-> suffix, scm |-> scmArg,
                  k1 |-> filter, k2 |-> None, k3 |-> None]
            r == getIds(fs, dataType, c)
        IN /\ call' = c
           /\ log' = r.log
           /\ scm' = scmArg
           /\ dataset' = <<>>
           /\ result' = None
           /\ IF r.err # "none"
              THEN pc' = "raised" /\ err' = r.err /\ dataIds' = <<>> /\ idx' = 0
              ELSE pc' = "loop" /\ err' = "none" /\ dataIds' = r.ids /\ idx' = 1
    /\ UNCHANGED <<fs, store>>

\* one pass of the for loop
Iterate ==
    /\ pc = "loop"
    /\ idx <= Len(dataIds)
    /\ LET b == LoopBody(store, call, dataIds, idx, scm)
       IN /\ log' = log \o b.log
          /\ scm' = b.scm
          /\ dataset' = dataset \o b.appended
          /\ IF b.err # "none"
             THEN pc' = "raised" /\ err' = b.err /\ idx' = idx
             ELSE pc' = "loop" /\ err' = "none" /\ idx' = idx + 1
    /\ UNCHANGED <<fs, store, call, dataIds, result>>

\* after the loop: None, the only element, or the concatenation
Return ==
    /\ pc = "loop"
    /\ idx > Len(dataIds)
    /\ LET r == IF Len(dataset) = 0 THEN [err |-> "none", val |-> None]
                ELSE IF Len(dataset) = 1 THEN [err |-> "none", val |-> dataset[1]]
                ELSE _concatenateCats(dataset)
       IN /\ result' = r.val
          /\ err' = r.err
          /\ pc' = IF r.err = "none" THEN "done" ELSE "raised"
    /\ UNCHANGED <<fs, store, call, dataIds, idx, dataset, scm, log>>

\* a direct call of self._getZeroMagFlux(dataType, **id)
Call_getZeroMagFlux ==
    /\ pc = "idle"
    /\ \E dataType \in DataTypes, id \in {E1, E2, D1, D2} :
        LET r == _getZeroMagFlux(store, dataType, id, 0)
        IN /\ call' = [op |-> "_getZeroMagFlux", dataType |-> dataType, id |-> id]
           /\ log' = r.log
           /\ err' = r.err
           /\ pc' = IF r.err = "none" THEN "done" ELSE "raised"
           /\ result' = IF r.err = "none"
                        THEN <<r.fluxMag0, r.fluxMag0Err, r.psf>> ELSE None
    /\ UNCHANGED <<fs, store, dataIds, idx, dataset, scm>>

Next == Call_fetchDataset \/ Iterate \/ Return \/ Call_getZeroMagFlux \/ NextCall

Spec == Init /\ [][Next]_vars

----------------------------------------------------------------------------
(* Claims about fetchDataset (checked under Spec) *)

FetchCall == call.op = "fetchDataset"
\* getIds has returned the list of identifiers
Resolved == FetchCall /\ idx >= 1
Positions == 1..Len(dataIds)
ExistingPositions ==
    {k \in Positions : datasetExists(store, call.dataType, dataIds[k])}
CatalogKind == call.dataType \in {SRC, DEEPCOADD_SRC}
IsTable(x) == ~IsNone(x) /\ x.t = "SimpleCatalog"

AcceptedKinds == {SRC, CALEXP_MD, DEEPCOADD, DEEPCOADD_SRC, DEEPCOADD_CALEXP_MD}

\* the primary image dataset of the family of a dataset type
PrimaryImage(dataType) ==
    IF dataType \in {SRC, CALEXP_MD} THEN CALEXP ELSE DEEPCOADD

\* for every existing dataset of the call, the store holds the calibration
\* product or the primary image, so that the calibration can be read
CalibrationInStore ==
    \A k \in ExistingPositions :
        \/ datasetExists(store, _getCalexpType(call.dataType).val, dataIds[k])
        \/ datasetExists(store, PrimaryImage(call.dataType), dataIds[k])

\* the retained records of the datasets at positions k, k+1, ..., in order
RECURSIVE RetainedFrom(_)
RetainedFrom(k) ==
    IF k > Len(dataIds) THEN <<>>
    ELSE (IF k \in ExistingPositions
          THEN SelectSeq([i \in 1..NRows(dataIds[k]) |-> Record(dataIds[k], i)], IsGood)
          ELSE <<>>) \o RetainedFrom(k + 1)

\* C4: when more than one resolved identifier has an existing source
\* catalog, fetchDataset returns one table whose rows are the retained rows
\* of each dataset, datasets in resolution order, rows in input order.
\* (Stated for the stores that hold a calibration source for each dataset.)
C4_ConcatenationOfRetainedRows ==
    (Returned /\ Resolved /\ CatalogKind /\ Cardinality(ExistingPositions) > 1
        /\ CalibrationInStore)
        => /\ err = "none"
           /\ IsTable(result)
           /\ [i \in 1..Len(result.rows) |-> Record(result.rows[i].src, result.rows[i].n)]
                = RetainedFrom(1)

\* the identifiers at the existing positions k, k+1, ..., in order
RECURSIVE ExistingFrom(_)
ExistingFrom(k) ==
    IF k > Len(dataIds) THEN <<>>
    ELSE (IF k \in ExistingPositions THEN <<dataIds[k]>> ELSE <<>>)
         \o ExistingFrom(k + 1)

\* C5: an absent dataset is skipped and the loop goes on: at the end the
\* accumulator holds one entry per resolved identifier whose dataset exists,
\* in resolution order; the call returns None exactly when there is none,
\* and the accumulated entry itself when there is exactly one.
\* (Stated for the stores that hold a calibration source for each dataset.)
C5_AbsentSkippedOthersAccumulated ==
    (Returned /\ Resolved /\ CalibrationInStore)
        => /\ [i \in 1..Len(dataset) |-> dataset[i].id] = ExistingFrom(1)
           /\ (ExistingPositions = {}) <=> (err = "none" /\ IsNone(result))
           /\ Cardinality(ExistingPositions) = 1
                => (err = "none" /\ result = dataset[1])

\* the values set in column col of an output record
Values(r, col) == {x[2] : x \in {y \in r.cols : y[1] = col}}

CalibrationKinds == {CALEXP_MD, CALEXP, DEEPCOADD_CALEXP_MD, DEEPCOADD}

\* C6: with withZeroMagFlux, each row of the returned table carries, in the
\* zero-point columns (suffixed or not), the flux and the error of the
\* calibration read for the data id of the dataset the row came from.
C6_ZeroPointOfOwnDataset ==
    (pc = "done" /\ FetchCall /\ call.withZeroMagFlux /\ IsTable(result))
        => \A i \in 1..Len(result.rows) :
            LET r == result.rows[i]
            IN \E k \in CalibrationKinds :
                /\ Values(r, Column("flux.zeromag", call.filterSuffix))
                     = {FluxMag0(k, r.src)}
                /\ Values(r, Column("flux.zeromag.err", call.filterSuffix))
                     = {FluxMag0Err(k, r.src)}

C6_Witness ==
    /\ pc = "done" /\ FetchCall /\ call.withZeroMagFlux /\ IsTable(result)
    /\ Truthy(call.filterSuffix)
    /\ \E i, j \in 1..Len(result.rows) : result.rows[i].src # result.rows[j].src

OutputCats == {i \in 1..Len(dataset) : dataset[i].t = "SimpleCatalog"}
Builds == {i \in 1..Len(log) : log[i].op = "createSchemaMapper"}

\* C7: inside one call the schema mapper is the caller's, if one was passed;
\* otherwise it is unset until the first source catalog is processed, built
\* then from that catalog with the options of this call, and kept: it is
\* built at most once, and every output catalog has its output schema.
C7_OneSchemaPerCall ==
    Resolved
        => /\ Cardinality(Builds) <= 1
           /\ ~IsNone(call.scm) => (scm = call.scm /\ Builds = {})
           /\ (IsNone(call.scm) /\ OutputCats = {}) => (IsNone(scm) /\ Builds = {})
           /\ (IsNone(call.scm) /\ OutputCats # {})
                => /\ scm = createSchemaMapper(dataset[1], call)
                   /\ \E b \in Builds : log[b].id = dataset[1].id
           /\ \A i \in OutputCats : dataset[i].schema = getOutputSchema(scm)

C7_Witness ==
    /\ pc = "done" /\ FetchCall /\ IsNone(call.scm)
    /\ Cardinality(OutputCats) >= 2
    /\ dataset[1].id # dataset[2].id
    /\ dataset[2].schema = getOutputSchema(createSchemaMapper(dataset[1], call))

\* C8: with withSeeing, the seeing of a row of the returned table is the
\* radius of the PSF of the row's dataset: evaluated at no position when
\* seeingAtPos is false; evaluated at the record when seeingAtPos is true
\* and the evaluation succeeds, else the value at no position.  A failing
\* evaluation does not end the call.
C8_SeeingPerRowOrDefault ==
    (pc = "done" /\ FetchCall /\ call.withSeeing /\ IsTable(result))
        => \A i \in 1..Len(result.rows) :
            LET r == result.rows[i]
                at == IF call.seeingAtPos /\ ShapeAt(r.src, r.n)
                      THEN Record(r.src, r.n) ELSE None
            IN \E k \in CalibrationKinds :
                Values(r, Column("seeing", call.filterSuffix))
                    = {[q |-> "radius", psf |-> Psf(k, r.src), pos |-> at]}

C8_Witness ==
    /\ pc = "done" /\ FetchCall /\ call.withSeeing /\ call.seeingAtPos
    /\ IsTable(result)
    /\ \E i, j \in 1..Len(result.rows) :
        /\ ~ShapeAt(result.rows[i].src, result.rows[i].n)
        /\ ShapeAt(result.rows[j].src, result.rows[j].n)

\* C9: for an accepted dataset type, _getZeroMagFlux asks once whether the
\* companion calibration product exists; if so it reads it, and if not it
\* reads the primary image dataset of the same family (calexp for src and
\* calexp_md, deepCoadd for the deepCoadd types) under the same data id.
C9_FallbackToPrimaryImage ==
    (Returned /\ call.op = "_getZeroMagFlux" /\ call.dataType \in AcceptedKinds)
        => LET comp == _getCalexpType(call.dataType).val
           IN log = <<Exists(comp, call.id, 0),
                      Get(IF datasetExists(store, comp, call.id) THEN comp
                          ELSE PrimaryImage(call.dataType), call.id, 0)>>

StoreOps == {"datasetExists", "get"}
FsOps == {"listdir", "isdir"}

\* the butler accesses made for the identifier at position k, in order
AccessesAt(k) == SelectSeq(log, LAMBDA e : e.op \in StoreOps /\ e.at = k)

\* filesystem accesses come first, then the butler accesses by position
InResolutionOrder ==
    \A i, j \in 1..Len(log) :
        (i < j /\ log[i].op \in StoreOps)
            => /\ log[j].op \notin FsOps
               /\ log[j].op \in StoreOps => log[i].at <= log[j].at

\* an unrecognized dataset type raises before anything is read
UnknownKindFailsFast ==
    (FetchCall /\ call.dataType \notin AcceptedKinds)
        => (pc = "raised" /\ err = "ValueError" /\ log = <<>>)

\* the loop has finished with position k, or the call has ended
Passed(k) == k < idx \/ Returned

\* C10, as claimed: accesses are sequential in resolution order, after the
\* resolution; for each resolved identifier the existence check of the
\* primary type happens exactly once, its get at most once and only after a
\* check that answered true, anything further only with withZeroMagFlux or
\* withSeeing; an unrecognized type raises before any access.
C10_OneCheckOneGetPerIdentifier ==
    FetchCall
        => /\ InResolutionOrder
           /\ UnknownKindFailsFast
           /\ \A k \in Positions :
                LET a == AccessesAt(k)
                    id == dataIds[k]
                    checks == {i \in 1..Len(a) : a[i] = Exists(call.dataType, id, k)}
                    gets == {i \in 1..Len(a) : a[i] = Get(call.dataType, id, k)}
                IN Passed(k)
                    => /\ Cardinality(checks) = 1
                       /\ Cardinality(gets) <= 1
                       /\ gets # {} => /\ datasetExists(store, call.dataType, id)
                                       /\ \A g \in gets : \E c \in checks : c < g
                       /\ Len(a) > 2 => /\ NeedsCalibration(call)
                                        /\ gets # {}

\* the loop has entered position k
Reached(k) == k < idx \/ (k = idx /\ pc = "raised")

\* the accesses of one pass of the loop, from the store and the options
PassAccesses(k) ==
    LET id == dataIds[k]
        ct == _getCalexpType(call.dataType).val
    IN IF ~datasetExists(store, call.dataType, id)
       THEN <<Exists(call.dataType, id, k)>>
       ELSE <<Exists(call.dataType, id, k), Get(call.dataType, id, k)>>
            \o (IF call.withZeroMagFlux \/ call.withSeeing
                THEN <<Exists(ct, id, k),
                       Get(IF datasetExists(store, ct, id) THEN ct
                           ELSE DropLast4(call.dataType), id, k)>>
                ELSE <<>>)

\* C10, amended: accesses are sequential in resolution order, after the
\* resolution; an unrecognized type raises before any access; for each
\* identifier the loop has entered, the accesses are the existence check of
\* the primary type, then, if it answered true, its get, then, only with
\* withZeroMagFlux or withSeeing, one existence check of the calibration
\* type and one get (of the calibration type, or of dataType[:-4] if it
\* is absent); the calibration type of calexp_md, deepCoadd and
\* deepCoadd_calexp_md is the primary type, which is then checked and read
\* twice.  No identifier is accessed after one whose pass raised.
C10_AccessesPerPass ==
    FetchCall
        => /\ InResolutionOrder
           /\ UnknownKindFailsFast
           /\ \A k \in Positions :
                AccessesAt(k) = IF Reached(k) THEN PassAccesses(k) ELSE <<>>

C10_Witness ==
    /\ pc = "done" /\ FetchCall /\ call.dataType = CALEXP_MD
    /\ call.withSeeing
    /\ Len(dataIds) = 2
    /\ Len(AccessesAt(1)) = 4
    /\ Len(AccessesAt(2)) = 1

====
